---- MODULE Spec2Model ----
(***************************************************************************)
(* A model of dcf.py, a Streamlit script that values a company by          *)
(* discounted cash flow.  One run of the script is a straight line of      *)
(* statements inside `if submit:`; the model follows it block by block.    *)
(*                                                                         *)
(* Numbers.  The script computes in binary floating point; the model       *)
(* computes the same expressions over exact rationals, so a statement      *)
(* about a value is a statement about the real number the expression       *)
(* denotes.  TLC's integers are 32 bits wide and 1.17^5 * 100^5 is not, so *)
(* numerators and denominators are naturals of any size, held as           *)
(* sequences of limbs.                                                     *)
(***************************************************************************)
EXTENDS Integers, Sequences, FiniteSets, TLC

\* ------------------------------------------------------------ naturals ----
\* A natural number is a sequence of limbs, least significant first, with no
\* zero limb at the top; zero is the empty sequence.
LimbBase == 10 * 100

RECURSIVE MagOfNat(_)
MagOfNat(k) == IF k = 0 THEN <<>> ELSE <<k % LimbBase>> \o MagOfNat(k \div LimbBase)

RECURSIVE NatOfMag(_)
NatOfMag(m) == IF m = <<>> THEN 0 ELSE Head(m) + LimbBase * NatOfMag(Tail(m))

\* Below 10^9, so that it and its gcds fit TLC's integers.
MagSmall(m) == Len(m) <= 3

SetMax(S) == CHOOSE k \in S : \A j \in S : j <= k

MagStrip(m) ==
  LET nz == {k \in 1..Len(m) : m[k] # 0}
  IN  IF nz = {} THEN <<>> ELSE SubSeq(m, 1, SetMax(nz))

\* The sequence a function on 1..n is, with every limb worked out.
Limbs(f) == f \o <<>>

\* Limbs out of range (too large, or negative in a difference that is not)
\* are brought into range by passing each limb's excess to the next one.
RECURSIVE MagCarry(_)
MagCarry(m) ==
  IF \A k \in 1..Len(m) : m[k] >= 0 /\ m[k] < LimbBase THEN MagStrip(m)
  ELSE MagCarry(Limbs([k \in 1..(Len(m) + 1) |->
                         (IF k <= Len(m) THEN m[k] % LimbBase ELSE 0)
                       + (IF k > 1 THEN m[k - 1] \div LimbBase ELSE 0)]))

Limb(m, k) == IF k >= 1 /\ k <= Len(m) THEN m[k] ELSE 0

MagAdd(a, b) ==
  LET len == IF Len(a) > Len(b) THEN Len(a) ELSE Len(b)
  IN  MagCarry(Limbs([k \in 1..len |-> Limb(a, k) + Limb(b, k)]))

\* -1, 0 or 1 as a < b, a = b or a > b.
MagCmp(a, b) ==
  IF Len(a) < Len(b) THEN -1
  ELSE IF Len(a) > Len(b) THEN 1
  ELSE LET diff == {k \in 1..Len(a) : a[k] # b[k]}
       IN  IF diff = {} THEN 0
           ELSE IF a[SetMax(diff)] < b[SetMax(diff)] THEN -1 ELSE 1

\* a - b for a >= b.
MagSub(a, b) == MagCarry(Limbs([k \in 1..Len(a) |-> a[k] - Limb(b, k)]))

\* The sum of a[i] * b[k + 1 - i] over the i from lo to hi.
RECURSIVE ConvSum(_, _, _, _, _)
ConvSum(a, b, k, lo, hi) ==
  IF lo > hi THEN 0 ELSE a[lo] * b[k + 1 - lo] + ConvSum(a, b, k, lo + 1, hi)

MagMul(a, b) ==
  IF a = <<>> \/ b = <<>> THEN <<>>
  ELSE MagCarry(Limbs([k \in 1..(Len(a) + Len(b) - 1) |->
                         ConvSum(a, b, k,
                                 IF k - Len(b) + 1 > 1 THEN k - Len(b) + 1 ELSE 1,
                                 IF k < Len(a) THEN k ELSE Len(a))]))

RECURSIVE Gcd(_, _)
Gcd(a, b) == IF b = 0 THEN a ELSE Gcd(b, a % b)

\* ----------------------------------------------------------- rationals ----
\* A number is [sg, n, d]: sign sg in {-1, 0, 1}, numerator n and denominator
\* d naturals, sg = 0 exactly when n = 0.  A denominator of 0 is "not a
\* number": what a data frame holds where the provider has no figure, and
\* what a division by zero would give.
NaN == [sg |-> 0, n |-> <<>>, d |-> <<>>]
IsNaN(x) == x.d = <<>>

\* Lowest terms, when numerator and denominator are small enough for Gcd.
Norm(x) ==
  IF x.n = <<>> \/ x.d = <<>> \/ ~MagSmall(x.n) \/ ~MagSmall(x.d) THEN x
  ELSE LET p == NatOfMag(x.n)
           q == NatOfMag(x.d)
           g == Gcd(p, q)
       IN  [sg |-> x.sg, n |-> MagOfNat(p \div g), d |-> MagOfNat(q \div g)]

\* p/q for integers p and q > 0.
Rat(p, q) ==
  LET a == IF p < 0 THEN -p ELSE p
      g == Gcd(a, q)
  IN  [sg |-> IF p < 0 THEN -1 ELSE IF p = 0 THEN 0 ELSE 1,
       n |-> MagOfNat(a \div g),
       d |-> IF p = 0 THEN <<1>> ELSE MagOfNat(q \div g)]

Zero == Rat(0, 1)
One == Rat(1, 1)

RNeg(x) == [x EXCEPT !.sg = -x.sg]

\* The signed sum of two numerators over a common denominator.
SignedSum(sa, a, sb, b, d) ==
  IF sa = 0 THEN [sg |-> sb, n |-> b, d |-> IF sb = 0 THEN <<1>> ELSE d]
  ELSE IF sb = 0 THEN [sg |-> sa, n |-> a, d |-> d]
  ELSE IF sa = sb THEN [sg |-> sa, n |-> MagAdd(a, b), d |-> d]
  ELSE LET c == MagCmp(a, b)
       IN  IF c = 0 THEN [sg |-> 0, n |-> <<>>, d |-> <<1>>]
           ELSE IF c > 0 THEN [sg |-> sa, n |-> MagSub(a, b), d |-> d]
           ELSE [sg |-> sb, n |-> MagSub(b, a), d |-> d]

RAdd(x, y) ==
  IF IsNaN(x) \/ IsNaN(y) THEN NaN
  ELSE IF x.d = y.d THEN Norm(SignedSum(x.sg, x.n, y.sg, y.n, x.d))
  ELSE IF MagSmall(x.d) /\ MagSmall(y.d)
    THEN LET p == NatOfMag(x.d)
             q == NatOfMag(y.d)
             g == Gcd(p, q)
             u == MagOfNat(q \div g)
             v == MagOfNat(p \div g)
         IN  Norm(SignedSum(x.sg, MagMul(x.n, u), y.sg, MagMul(y.n, v), MagMul(x.d, u)))
  ELSE Norm(SignedSum(x.sg, MagMul(x.n, y.d), y.sg, MagMul(y.n, x.d), MagMul(x.d, y.d)))

RSub(x, y) == RAdd(x, RNeg(y))

\* x.n / y.d with their common factor cancelled, when both are small.
Cancel(a, b) ==
  IF a = <<>> \/ ~MagSmall(a) \/ ~MagSmall(b) THEN <<a, b>>
  ELSE LET p == NatOfMag(a)
           q == NatOfMag(b)
           g == Gcd(p, q)
       IN  <<MagOfNat(p \div g), MagOfNat(q \div g)>>

RMul(x, y) ==
  IF IsNaN(x) \/ IsNaN(y) THEN NaN
  ELSE IF x.sg = 0 \/ y.sg = 0 THEN Zero
  ELSE LET l == Cancel(x.n, y.d)
           r == Cancel(y.n, x.d)
       IN  [sg |-> x.sg * y.sg, n |-> MagMul(l[1], r[1]), d |-> MagMul(r[2], l[2])]

\* x / y; not a number when y is zero.
RDiv(x, y) ==
  IF IsNaN(x) \/ IsNaN(y) \/ y.sg = 0 THEN NaN
  ELSE RMul(x, [sg |-> y.sg, n |-> y.d, d |-> y.n])

RECURSIVE RPow(_, _)
RPow(x, i) == IF i = 0 THEN One ELSE RMul(x, RPow(x, i - 1))

\* Equality and order of values, whatever their representation.
REq(x, y) ==
  /\ ~IsNaN(x) /\ ~IsNaN(y)
  /\ x.sg = y.sg
  /\ MagMul(x.n, y.d) = MagMul(y.n, x.d)

RSign(x) == x.sg
RLt(x, y) == ~IsNaN(x) /\ ~IsNaN(y) /\ RSign(RSub(x, y)) < 0
RLe(x, y) == RLt(x, y) \/ REq(x, y)

\* Python's truth value of a number: false for zero.  (NaN is true.)
Truthy(x) == IsNaN(x) \/ x.sg # 0

\* ---------------------------------------------------------- the bounds ----
\* Submissions in one session.
MaxRuns == 2

\* ------------------------------------------------ the provider's tables ----
\* A statement is a data frame: its columns are fiscal years, newest first,
\* and each row, addressed by its label, holds one figure per column.
fcf_line == "Free Cash Flow"
EquityLabel == "Total Equity Gross Minority Interest"
DebtLabel == "Total Debt"
CashLabel == "Cash And Cash Equivalents"
SharesLabel == "Ordinary Shares Number"
InterestLabel == "Interest Expense"
TaxLabel == "Tax Rate For Calcs"

Years == <<2024, 2023, 2022, 2021, 2020>>

\* A row of whole figures.  A cell the provider has no figure for holds NaN.
Figures(row) == [j \in 1..Len(row) |-> Rat(row[j], 1)]

\* The frame of the rows given; a label whose row is empty is not in it.
Frame(ncols, given) ==
  [columns |-> SubSeq(Years, 1, ncols),
   rows |-> [l \in {k \in DOMAIN given : given[k] # <<>>} |-> given[l]]]

Absent == <<>>

FcfRows ==
  { Figures(<<400, 300, 200, 100>>),
    Figures(<<-300, 100, -200, 0>>),
    Figures(<<100, -60, 40, 20, 900>>),
    <<NaN>> \o Figures(<<300, 200, 100>>) }

ProviderCashflows ==
  { Frame(Len(r), (fcf_line :> r) @@ ("Operating Cash Flow" :> [j \in 1..Len(r) |-> Rat(500, 1)]))
      : r \in FcfRows }
  \cup { Frame(4, (fcf_line :> Absent) @@ ("Operating Cash Flow" :> Figures(<<500, 500, 500, 500>>))) }

InterestRows == {Absent, Figures(<<18, 12>>)}
TaxRows == {Absent, <<Rat(1, 5), Rat(1, 4)>>}

ProviderIncomeStatements ==
  { Frame(2, (InterestLabel :> i) @@ (TaxLabel :> t)) : i \in InterestRows, t \in TaxRows }

EquityRows == {Absent, Figures(<<700, 650>>), Figures(<<-300, 400>>)}
DebtRows == {Absent, Figures(<<300, 250>>)}
CashRows == {Absent, Figures(<<100, 120>>)}
SharesRows == {Absent, Figures(<<10, 9>>), <<NaN>> \o Figures(<<9>>)}

ProviderBalanceSheets ==
  { Frame(2, (EquityLabel :> e) @@ (DebtLabel :> d) @@ (CashLabel :> c) @@ (SharesLabel :> s))
      : e \in EquityRows, d \in DebtRows, c \in CashRows, s \in SharesRows }

\* The latest close, always a positive price.
ProviderPrices == {Rat(150, 1)}

\* What the sidebar offers: the ticker, and the risk-free rate in percent.
Tickers == {"INDF.JK"}
RiskFreeRates == {Rat(55, 10), Rat(46, 10)}

\* ------------------------------------------------------- the namespace ----
\* The script's global names.  A name is bound to at most one value: <<v>>
\* when bound, <<>> when not, and reading an unbound name is a NameError.
InputNames == {"ticker", "risk_free_rate", "country", "submit"}
FetchNames == {"stock", "market_price", "cashflow", "income_stmt", "balance_sheet"}
ForecastNames ==
  {"fcf_raw", "years", "base_value", "forecast_years", "growth_rate"}
ComputeNames ==
  { "fcf_line", "fcf_forecast", "terminal_value", "fcf_cagr",
    "total_equity", "total_debt", "cash", "net_debt", "shares_outstanding",
    "interest_expense", "tax_rate", "pretax_cod", "after_tax_cod",
    "equity_risk_premium", "country_risk_premium", "cost_of_equity",
    "total_capital", "equity_weight", "debt_weight", "wacc",
    "discount_factors", "discounted_fcfs", "discounted_terminal",
    "enterprise_value", "equity_value", "intrinsic_value", "upside" }
Names == InputNames \cup FetchNames \cup ForecastNames \cup ComputeNames \cup {"hist"}

VARIABLES
  pc,      \* where the script is
  ns,      \* the names the running script has bound
  trace,   \* this run's provider calls and rendered elements, in order
  err,     \* the exception that ended the run, or "none"
  runs     \* submissions so far

vars == <<pc, ns, trace, err, runs>>

Bound(env, x) == env[x] # <<>>
V(env, x) == env[x][1]
Defined(env) == {x \in Names : Bound(env, x)}
Bind(env, asg) == [x \in DOMAIN asg |-> <<asg[x]>>] @@ env

\* the namespace of the run before, kept
StaleNamespace == ns

\* Streamlit runs the script from its first line on every interaction, in a
\* namespace of its own: nothing a previous run bound is there.
FreshNamespace == [x \in Names |-> <<>>]

\* ------------------------------------------------------ the arithmetic ----
HistoryYears == 4
ForecastYears == 5
CagrPeriods == 9

Reverse(seq) == [j \in 1..Len(seq) |-> seq[Len(seq) + 1 - j]]

\* Series.head(n): the first n entries, or all of them when there are fewer.
HeadOf(seq, n) == SubSeq(seq, 1, IF Len(seq) < n THEN Len(seq) ELSE n)

RECURSIVE RSumTo(_, _)
RSumTo(seq, k) == IF k = 0 THEN Zero ELSE RAdd(RSumTo(seq, k - 1), seq[k])

RSum(seq) == RSumTo(seq, Len(seq))
Mean(seq) == RDiv(RSum(seq), Rat(Len(seq), 1))

\* DataFrame.fillna(0)
fillna(df) ==
  [columns |-> df.columns,
   rows |-> [l \in DOMAIN df.rows |->
               [j \in 1..Len(df.rows[l]) |-> IF IsNaN(df.rows[l][j]) THEN Zero ELSE df.rows[l][j]]]]

\* return 0 for return default
safe_get_zero(df, label, default) ==
  IF label \in DOMAIN df.rows THEN df.rows[label][1] ELSE Zero

safe_get(df, label, default) ==
  IF label \in DOMAIN df.rows THEN df.rows[label][1] ELSE default

\* range(0, 5) for range(1, 6)
ForecastFromYearZero(base_value, growth_rate) ==
  [i \in 1..ForecastYears |-> RMul(base_value, RPow(RAdd(One, growth_rate), i - 1))]

Forecast(base_value, growth_rate) ==
  [i \in 1..ForecastYears |-> RMul(base_value, RPow(RAdd(One, growth_rate), i))]

TerminalValue(fcf_forecast) == RMul(fcf_forecast[Len(fcf_forecast)], Rat(103, 100))

\* ((last / first) ** (1/9)) - 1.  A ninth root has no exact value here, so
\* the rate is held as the pair it is the root of; numpy gives nan for the
\* root of a negative ratio.
Cagr(fcf_forecast, first) ==
  IF Truthy(first)
    THEN LET ratio == RDiv(fcf_forecast[Len(fcf_forecast)], first)
         IN  [of |-> IF RSign(ratio) < 0 THEN NaN ELSE ratio, root |-> CagrPeriods]
    ELSE Zero

PretaxCod(interest_expense, total_debt) ==
  IF Truthy(interest_expense) /\ Truthy(total_debt)
    THEN RMul(RDiv(interest_expense, total_debt), Rat(100, 1))
    ELSE Rat(5, 1)

AfterTaxCod(pretax_cod, tax_rate) == RMul(pretax_cod, RSub(One, tax_rate))

EquityRiskPremium == RDiv(Rat(29, 10), Rat(100, 1))
CountryRiskPremium == RDiv(Rat(25, 10), Rat(100, 1))

CostOfEquity(risk_free_rate) ==
  RAdd(RAdd(RDiv(risk_free_rate, Rat(100, 1)), EquityRiskPremium), CountryRiskPremium)

\* the weight without its guard
WeightUnguarded(part, total_capital) == RDiv(part, total_capital)

Weight(part, total_capital) ==
  IF Truthy(total_capital) THEN RDiv(part, total_capital) ELSE Zero

\* the cost of debt taken as a fraction although it is held in percent
WaccDebtCostAsFraction(equity_weight, cost_of_equity, debt_weight, after_tax_cod, total_capital) ==
  IF Truthy(total_capital)
    THEN RAdd(RMul(equity_weight, cost_of_equity), RMul(debt_weight, after_tax_cod))
    ELSE Rat(1, 10)

Wacc(equity_weight, cost_of_equity, debt_weight, after_tax_cod, total_capital) ==
  IF Truthy(total_capital)
    THEN RAdd(RMul(equity_weight, cost_of_equity),
              RDiv(RMul(debt_weight, after_tax_cod), Rat(100, 1)))
    ELSE Rat(1, 10)

\* range(0, 5) for range(1, 6)
DiscountFactorsFromYearZero(wacc) ==
  [i \in 1..ForecastYears |-> RPow(RAdd(One, wacc), i - 1)]

DiscountFactors(wacc) == [i \in 1..ForecastYears |-> RPow(RAdd(One, wacc), i)]

\* np.array(fcf_forecast) / discount_factors, element by element.
DiscountedFcfs(fcf_forecast, discount_factors) ==
  [i \in 1..Len(fcf_forecast) |-> RDiv(fcf_forecast[i], discount_factors[i])]

DiscountedTerminal(terminal_value, wacc) ==
  RDiv(terminal_value, RPow(RAdd(One, wacc), ForecastYears))

EnterpriseValue(discounted_fcfs, discounted_terminal) ==
  RAdd(RSum(discounted_fcfs), discounted_terminal)

\* the division without its guard
IntrinsicValueUnguarded(equity_value, shares_outstanding) ==
  RDiv(equity_value, shares_outstanding)

IntrinsicValue(equity_value, shares_outstanding) ==
  IF Truthy(shares_outstanding) THEN RDiv(equity_value, shares_outstanding) ELSE Zero

\* market price less intrinsic value
UpsideReversed(intrinsic_value, market_price) ==
  RMul(RDiv(RSub(market_price, intrinsic_value), market_price), Rat(100, 1))

Upside(intrinsic_value, market_price) ==
  RMul(RDiv(RSub(intrinsic_value, market_price), market_price), Rat(100, 1))

\* ------------------------------------------ the script, block by block ----
\* Each block is the run of statements between two comments of the script:
\* the names it reads, and the namespace it leaves.

\* One assignment statement: name = value.
Assign(env, x, v) == (x :> <<v>>) @@ env

\* Free Cash Flow Forecast
Set_fcf_line(env) == Assign(env, "fcf_line", fcf_line)

\* cashflow.loc[fcf_line].head(4)[::-1], a series: the years and the figures,
\* oldest first.
Set_fcf_raw(env) ==
  Assign(env, "fcf_raw",
         [index |-> Reverse(HeadOf(V(env, "cashflow").columns, HistoryYears)),
          values |-> Reverse(HeadOf(V(env, "cashflow").rows[V(env, "fcf_line")], HistoryYears))])

Set_years(env) == Assign(env, "years", V(env, "fcf_raw").index)
Set_base_value(env) == Assign(env, "base_value", Mean(V(env, "fcf_raw").values))

Set_forecast_years(env) ==
  Assign(env, "forecast_years",
         [i \in 1..ForecastYears |-> V(env, "years")[Len(V(env, "years"))] + i])

Set_growth_rate(env) == Assign(env, "growth_rate", Rat(17, 100))

Set_fcf_forecast(env) ==
  Assign(env, "fcf_forecast", Forecast(V(env, "base_value"), V(env, "growth_rate")))

Set_terminal_value(env) ==
  Assign(env, "terminal_value", TerminalValue(V(env, "fcf_forecast")))

NoForecast(env) ==
  Assign(Assign(env, "fcf_forecast", [i \in 1..ForecastYears |-> Zero]), "terminal_value", Zero)

ForecastBlock(env) ==
  IF fcf_line \in DOMAIN V(env, "cashflow").rows
    THEN Set_terminal_value(Set_fcf_forecast(Set_growth_rate(Set_forecast_years(
           Set_base_value(Set_years(Set_fcf_raw(Set_fcf_line(env))))))))
    ELSE NoForecast(Set_fcf_line(env))

\* CAGR Calculation
CagrBlock(env) ==
  Assign(env, "fcf_cagr", Cagr(V(env, "fcf_forecast"), V(env, "fcf_raw").values[1]))

\* Capital Structure
Set_total_equity(env) ==
  Assign(env, "total_equity", safe_get(V(env, "balance_sheet"), EquityLabel, Zero))

Set_total_debt(env) ==
  Assign(env, "total_debt", safe_get(V(env, "balance_sheet"), DebtLabel, Zero))

Set_cash(env) == Assign(env, "cash", safe_get(V(env, "balance_sheet"), CashLabel, Zero))
Set_net_debt(env) == Assign(env, "net_debt", RSub(V(env, "total_debt"), V(env, "cash")))

Set_shares_outstanding(env) ==
  Assign(env, "shares_outstanding", safe_get(V(env, "balance_sheet"), SharesLabel, Zero))

CapitalStructureBlock(env) ==
  Set_shares_outstanding(Set_net_debt(Set_cash(Set_total_debt(Set_total_equity(env)))))

\* Cost of Debt
Set_interest_expense(env) ==
  Assign(env, "interest_expense", safe_get(V(env, "income_stmt"), InterestLabel, Zero))

Set_tax_rate(env) ==
  Assign(env, "tax_rate", safe_get(V(env, "income_stmt"), TaxLabel, Rat(241, 1000)))

Set_pretax_cod(env) ==
  Assign(env, "pretax_cod", PretaxCod(V(env, "interest_expense"), V(env, "total_debt")))

Set_after_tax_cod(env) ==
  Assign(env, "after_tax_cod", AfterTaxCod(V(env, "pretax_cod"), V(env, "tax_rate")))

CostOfDebtBlock(env) ==
  Set_after_tax_cod(Set_pretax_cod(Set_tax_rate(Set_interest_expense(env))))

\* Cost of Equity
CostOfEquityBlock(env) ==
  Assign(Assign(Assign(env, "equity_risk_premium", EquityRiskPremium),
                "country_risk_premium", CountryRiskPremium),
         "cost_of_equity", CostOfEquity(V(env, "risk_free_rate")))

\* WACC
Set_total_capital(env) ==
  Assign(env, "total_capital", RAdd(V(env, "total_equity"), V(env, "total_debt")))

Set_equity_weight(env) ==
  Assign(env, "equity_weight", Weight(V(env, "total_equity"), V(env, "total_capital")))

Set_debt_weight(env) ==
  Assign(env, "debt_weight", Weight(V(env, "total_debt"), V(env, "total_capital")))

Set_wacc(env) ==
  Assign(env, "wacc", Wacc(V(env, "equity_weight"), V(env, "cost_of_equity"),
                           V(env, "debt_weight"), V(env, "after_tax_cod"),
                           V(env, "total_capital")))

WaccBlock(env) == Set_wacc(Set_debt_weight(Set_equity_weight(Set_total_capital(env))))

\* DCF Valuation
Set_discount_factors(env) ==
  Assign(env, "discount_factors", DiscountFactors(V(env, "wacc")))

Set_discounted_fcfs(env) ==
  Assign(env, "discounted_fcfs",
         DiscountedFcfs(V(env, "fcf_forecast"), V(env, "discount_factors")))

Set_discounted_terminal(env) ==
  Assign(env, "discounted_terminal", DiscountedTerminal(V(env, "terminal_value"), V(env, "wacc")))

Set_enterprise_value(env) ==
  Assign(env, "enterprise_value",
         EnterpriseValue(V(env, "discounted_fcfs"), V(env, "discounted_terminal")))

Set_equity_value(env) ==
  Assign(env, "equity_value", RSub(V(env, "enterprise_value"), V(env, "net_debt")))

Set_intrinsic_value(env) ==
  Assign(env, "intrinsic_value",
         IntrinsicValue(V(env, "equity_value"), V(env, "shares_outstanding")))

Set_upside(env) ==
  Assign(env, "upside", Upside(V(env, "intrinsic_value"), V(env, "market_price")))

DcfBlock(env) ==
  Set_upside(Set_intrinsic_value(Set_equity_value(Set_enterprise_value(
    Set_discounted_terminal(Set_discounted_fcfs(Set_discount_factors(env)))))))

NBlocks == 7

Reads(i) ==
  CASE i = 1 -> {"cashflow"}
    [] i = 2 -> {"fcf_raw", "fcf_forecast"}
    [] i = 3 -> {"balance_sheet"}
    [] i = 4 -> {"income_stmt", "total_debt"}
    [] i = 5 -> {"risk_free_rate"}
    [] i = 6 -> {"total_equity", "total_debt", "cost_of_equity", "after_tax_cod"}
    [] i = 7 -> {"wacc", "fcf_forecast", "terminal_value", "net_debt",
                 "shares_outstanding", "market_price"}

Block(i, env) ==
  CASE i = 1 -> ForecastBlock(env)
    [] i = 2 -> CagrBlock(env)
    [] i = 3 -> CapitalStructureBlock(env)
    [] i = 4 -> CostOfDebtBlock(env)
    [] i = 5 -> CostOfEquityBlock(env)
    [] i = 6 -> WaccBlock(env)
    [] i = 7 -> DcfBlock(env)

\* The blocks from the i-th on, in order; a block that reads an unbound name
\* raises NameError and the run ends with the namespace as it is.
RECURSIVE RunBlocks(_, _)
RunBlocks(env, i) ==
  IF i > NBlocks THEN [ns |-> env, err |-> "none"]
  ELSE IF \E x \in Reads(i) : ~Bound(env, x) THEN [ns |-> env, err |-> "NameError"]
  ELSE RunBlocks(Block(i, env), i + 1)

\* ---------------------------------------------------------- the output ----
Call(what) == <<"call", what>>
Render(what) == <<"render", what>>

\* Title, the three metric boxes, the note under them, and the heading of
\* the price chart.
HeaderElements ==
  << Render("title"), Render("metric: Market Price"), Render("metric: CAGR FCF"),
     Render("metric: WACC"), Render("info: DCF model"),
     Render("subheader: Stock Performance") >>

UpsideLabel(upside) ==
  IF RLe(Zero, upside) THEN "metric: Upside Potential" ELSE "metric: Downside Risk"

BodyElements(env) ==
  << Render("chart: price"), Render("subheader: FCF Forecasting"), Render("chart: fcf"),
     Render("info: forecast"), Render("subheader: Capital Structure"),
     Render("chart: capital structure"), Render("table: capital structure"),
     Render("subheader: Cost of Equity"), Render("table: cost of equity"),
     Render("subheader: Cost of Debt"), Render("table: cost of debt"),
     Render("info: sources"), Render("subheader: Final DCF Valuation Result"),
     Render("table: valuation"), Render("metric: Market Price"),
     Render("metric: Intrinsic Value"), Render(UpsideLabel(V(env, "upside"))),
     Render("info: disclaimer"), Render("footer") >>

BodyReads ==
  { "hist", "years", "fcf_raw", "forecast_years", "fcf_forecast", "terminal_value",
    "total_equity", "total_debt", "total_capital", "risk_free_rate", "cost_of_equity",
    "interest_expense", "pretax_cod", "tax_rate", "after_tax_cod", "discounted_fcfs",
    "discounted_terminal", "enterprise_value", "net_debt", "equity_value",
    "shares_outstanding", "intrinsic_value", "market_price", "upside" }

\* An uncaught exception ends the run; Streamlit shows it under what the run
\* has rendered so far.
Raise(exception) ==
  /\ pc' = "failed"
  /\ err' = exception
  /\ trace' = Append(trace, Render("exception"))

\* ----------------------------------------------------------- the steps ----
\* The script is a straight line: where it goes after each place.
After(p) ==
  CASE p = "fetch_price" -> "fetch_cashflow"
    [] p = "fetch_cashflow" -> "fetch_income"
    [] p = "fetch_income" -> "fetch_balance"
    [] p = "fetch_balance" -> "compute"
    [] p = "compute" -> "render_header"
    [] p = "render_header" -> "fetch_history"
    [] p = "fetch_history" -> "render_body"
    [] p = "render_body" -> "done"

Init ==
  /\ pc = "idle"
  /\ ns = [x \in Names |-> <<>>]
  /\ trace = <<>>
  /\ err = "none"
  /\ runs = 0

\* The user presses Submit: the script runs again from its first line.
Submit ==
  /\ pc \in {"idle", "done", "failed"}
  /\ runs < MaxRuns
  /\ \E t \in Tickers, r \in RiskFreeRates :
       ns' = Bind(FreshNamespace, ("ticker" :> t) @@ ("risk_free_rate" :> r)
                                  @@ ("country" :> "Indonesia") @@ ("submit" :> TRUE))
  /\ pc' = "fetch_price"
  /\ trace' = <<>>
  /\ err' = "none"
  /\ runs' = runs + 1

\* stock = yf.Ticker(ticker); market_price = stock.history(period="1d")["Close"].iloc[-1]
FetchPrice ==
  /\ pc = "fetch_price"
  /\ \E p \in ProviderPrices :
       ns' = Bind(ns, ("stock" :> V(ns, "ticker")) @@ ("market_price" :> p))
  /\ trace' = Append(trace, Call("history 1d"))
  /\ pc' = After(pc)
  /\ UNCHANGED <<err, runs>>

FetchCashflow ==
  /\ pc = "fetch_cashflow"
  /\ \E df \in ProviderCashflows : ns' = Bind(ns, "cashflow" :> fillna(df))
  /\ trace' = Append(trace, Call("cashflow"))
  /\ pc' = After(pc)
  /\ UNCHANGED <<err, runs>>

FetchIncome ==
  /\ pc = "fetch_income"
  /\ \E df \in ProviderIncomeStatements : ns' = Bind(ns, "income_stmt" :> fillna(df))
  /\ trace' = Append(trace, Call("financials"))
  /\ pc' = After(pc)
  /\ UNCHANGED <<err, runs>>

FetchBalance ==
  /\ pc = "fetch_balance"
  /\ \E df \in ProviderBalanceSheets : ns' = Bind(ns, "balance_sheet" :> fillna(df))
  /\ trace' = Append(trace, Call("balance_sheet"))
  /\ pc' = After(pc)
  /\ UNCHANGED <<err, runs>>

\* How a run of blocks leaves the script: on to the rendering, or raising.
Finish(r) ==
  /\ ns' = r.ns
  /\ IF r.err = "none"
       THEN pc' = After(pc) /\ err' = err /\ trace' = trace
       ELSE Raise(r.err)

\* Lines 111 to 162: no provider call and nothing rendered.
Compute ==
  /\ pc = "compute"
  /\ \E r \in {RunBlocks(ns, 1)} : Finish(r)
  /\ UNCHANGED runs

RenderHeader ==
  /\ pc = "render_header"
  /\ trace' = trace \o HeaderElements
  /\ pc' = After(pc)
  /\ UNCHANGED <<ns, err, runs>>

\* hist = stock.history(period="5y")
FetchHistory ==
  /\ pc = "fetch_history"
  /\ ns' = Bind(ns, "hist" :> <<"Close">>)
  /\ trace' = Append(trace, Call("history 5y"))
  /\ pc' = After(pc)
  /\ UNCHANGED <<err, runs>>

RenderBody ==
  /\ pc = "render_body"
  /\ IF BodyReads \subseteq Defined(ns)
       THEN pc' = After(pc) /\ err' = err /\ trace' = trace \o BodyElements(ns)
       ELSE Raise("NameError")
  /\ UNCHANGED <<ns, runs>>

\* A provider call raises (no network, an unknown ticker, an empty price
\* history): nothing is bound and the exception is not caught.
CallAt(p) ==
  CASE p = "fetch_price" -> "history 1d"
    [] p = "fetch_cashflow" -> "cashflow"
    [] p = "fetch_income" -> "financials"
    [] p = "fetch_balance" -> "balance_sheet"
    [] p = "fetch_history" -> "history 5y"

ProviderFails ==
  /\ pc \in {"fetch_price", "fetch_cashflow", "fetch_income", "fetch_balance", "fetch_history"}
  /\ pc' = "failed"
  /\ err' = "ProviderError"
  /\ trace' = trace \o <<Call(CallAt(pc)), Render("exception")>>
  /\ UNCHANGED <<ns, runs>>

\* ----------------------------------------------------------- the claims ----
HasFcf == Bound(ns, "cashflow") /\ fcf_line \in DOMAIN V(ns, "cashflow").rows
NoFcf == Bound(ns, "cashflow") /\ fcf_line \notin DOMAIN V(ns, "cashflow").rows

IsCall(e) == e[1] = "call"
IsOutput(e) == e[1] = "render" /\ e # Render("exception")

\* What the page shows of the valuation: the rendered elements, in order.
Page == SelectSeq(trace, IsOutput)

Hundred == Rat(100, 1)

\* Lines 111 to 162 have run and nothing is rendered yet.
JustComputed == pc = "render_header"

\* C1: a request whose cash-flow statement has no 'Free Cash Flow' row has the
\* forecast [0,0,0,0,0] and terminal value 0, and runs to completion: it never
\* ends in an exception of the script's own.
C1_MissingFcfRunsToCompletion ==
  NoFcf =>
    /\ err # "NameError"
    /\ Bound(ns, "fcf_forecast") =>
         /\ V(ns, "fcf_forecast") = [i \in 1..ForecastYears |-> Zero]
         /\ V(ns, "terminal_value") = Zero

\* The forecast is the five zeros, the terminal value 0, and the run has
\* stopped at the CAGR line, which reads fcf_raw.
C1_Witness ==
  /\ NoFcf
  /\ pc = "failed"
  /\ err = "NameError"
  /\ V(ns, "fcf_forecast") = [i \in 1..ForecastYears |-> Zero]
  /\ ~Bound(ns, "fcf_cagr")

\* C2: with four historical values a, b, c, d (the four newest of the row),
\* forecast year i is mean(a,b,c,d) * 1.17^i for i in 1..5, stated without
\* division as 4 * 100^i * forecast_i = (a+b+c+d) * 117^i, and the terminal
\* value is forecast year 5 * 1.03.
FcfRow == V(ns, "cashflow").rows[fcf_line]
FourNewest == RAdd(RAdd(RAdd(FcfRow[1], FcfRow[2]), FcfRow[3]), FcfRow[4])

C2_ForecastIsMeanTimesGrowth ==
  (JustComputed /\ HasFcf /\ Len(FcfRow) >= HistoryYears) =>
    /\ Len(V(ns, "fcf_forecast")) = 5
    /\ \A i \in 1..5 :
         REq(RMul(V(ns, "fcf_forecast")[i], RMul(Rat(4, 1), RPow(Hundred, i))),
             RMul(FourNewest, RPow(Rat(117, 1), i)))
    /\ REq(RMul(V(ns, "terminal_value"), Hundred),
           RMul(V(ns, "fcf_forecast")[5], Rat(103, 1)))

\* A completed request whose row has a fifth, older column and figures of
\* both signs.
C2_Witness ==
  /\ JustComputed
  /\ HasFcf
  /\ Len(FcfRow) > HistoryYears
  /\ \E j, k \in 1..HistoryYears : RSign(FcfRow[j]) < 0 /\ RSign(FcfRow[k]) > 0

\* C3: whenever total capital is non-zero, WACC is the equity weight times
\* the cost of equity plus the debt weight times the after-tax cost of debt
\* over 100, the weights being equity and debt over total capital; stated
\* without division as 100 * TC * WACC = 100 * E * coe + D * atc.  Equity 700,
\* debt 300, cost of equity 10% and after-tax cost of debt 4% give 0.082.
C3_WaccIsWeightedCost ==
  /\ (JustComputed /\ V(ns, "total_capital").sg # 0) =>
       /\ REq(RMul(V(ns, "equity_weight"), V(ns, "total_capital")), V(ns, "total_equity"))
       /\ REq(RMul(V(ns, "debt_weight"), V(ns, "total_capital")), V(ns, "total_debt"))
       /\ REq(RMul(RMul(V(ns, "wacc"), V(ns, "total_capital")), Hundred),
              RAdd(RMul(RMul(V(ns, "total_equity"), V(ns, "cost_of_equity")), Hundred),
                   RMul(V(ns, "total_debt"), V(ns, "after_tax_cod"))))
  /\ REq(Wacc(Weight(Rat(700, 1), Rat(1000, 1)), Rat(10, 100),
              Weight(Rat(300, 1), Rat(1000, 1)), Rat(4, 1), Rat(1000, 1)),
         Rat(82, 1000))

\* The example as a request: equity 700, debt 300, risk-free rate 4.6%,
\* no interest expense (pre-tax cost 5%), tax rate 20%.
C3_Witness ==
  /\ JustComputed
  /\ REq(V(ns, "total_equity"), Rat(700, 1))
  /\ REq(V(ns, "total_debt"), Rat(300, 1))
  /\ REq(V(ns, "cost_of_equity"), Rat(10, 100))
  /\ REq(V(ns, "after_tax_cod"), Rat(4, 1))
  /\ REq(V(ns, "wacc"), Rat(82, 1000))

\* C4: whenever total capital is 0, also when equity and debt are non-zero
\* and cancel, WACC is 0.10 and neither weight nor WACC is the outcome of a
\* division by zero.
C4_ZeroCapitalFallsBack ==
  (Bound(ns, "wacc") /\ V(ns, "total_capital") = Zero) =>
    /\ REq(V(ns, "wacc"), Rat(10, 100))
    /\ ~IsNaN(V(ns, "equity_weight"))
    /\ ~IsNaN(V(ns, "debt_weight"))
    /\ ~IsNaN(V(ns, "wacc"))
    /\ err # "NameError"

\* Equity and debt non-zero and cancelling.
C4_Witness ==
  /\ pc = "done"
  /\ V(ns, "total_equity").sg < 0
  /\ V(ns, "total_debt").sg > 0
  /\ V(ns, "total_capital") = Zero

\* C5: whenever shares outstanding is 0, the label missing or its newest
\* value 0, intrinsic value per share is 0 whatever the equity value, and
\* computing it raises nothing.
C5_NoSharesNoValue ==
  (Bound(ns, "intrinsic_value") /\ V(ns, "shares_outstanding") = Zero) =>
    /\ V(ns, "intrinsic_value") = Zero
    /\ err # "NameError"

\* Both ways to zero shares, with an equity value that is not zero.  The
\* second is a row whose newest figure is missing and filled with 0.
C5_Witness ==
  /\ pc = "done"
  /\ V(ns, "shares_outstanding") = Zero
  /\ V(ns, "equity_value").sg # 0
  /\ SharesLabel \in DOMAIN V(ns, "balance_sheet").rows

\* C6: for every completed request the upside is (intrinsic value - market
\* price) / market price * 100, stated as upside * price = 100 * (intrinsic -
\* price); it is positive when intrinsic value is above the price and
\* negative when below; and the box is labelled 'Upside Potential' exactly
\* when it is >= 0, 'Downside Risk' otherwise.
Rendered(what) == \E k \in 1..Len(trace) : trace[k] = Render(what)

C6_UpsideSignAndLabel ==
  /\ pc = "done" =>
       /\ REq(RMul(V(ns, "upside"), V(ns, "market_price")),
              RMul(RSub(V(ns, "intrinsic_value"), V(ns, "market_price")), Hundred))
       /\ RLt(V(ns, "market_price"), V(ns, "intrinsic_value")) => V(ns, "upside").sg > 0
       /\ RLt(V(ns, "intrinsic_value"), V(ns, "market_price")) => V(ns, "upside").sg < 0
       /\ Rendered("metric: Upside Potential") <=> V(ns, "upside").sg >= 0
       /\ Rendered("metric: Downside Risk") <=> V(ns, "upside").sg < 0
  /\ UpsideLabel(Zero) = "metric: Upside Potential"

\* A completed request valued above its price; the other sign is C5's.
C6_Witness ==
  /\ pc = "done"
  /\ RLt(V(ns, "market_price"), V(ns, "intrinsic_value"))
  /\ Rendered("metric: Upside Potential")

\* C7: a submission runs fetch, then compute, then render: every provider
\* call of a request comes before anything of its valuation is rendered, so
\* a request that a provider call fails shows none of it.
C7_AllCallsBeforeAnyOutput ==
  /\ \A j, k \in 1..Len(trace) : (j < k /\ IsOutput(trace[j])) => ~IsCall(trace[k])
  /\ err = "ProviderError" => Page = <<>>

\* The five-year history fails: the header is on the page, the charts and
\* the valuation are not.
C7_Witness ==
  /\ err = "ProviderError"
  /\ Page = HeaderElements
  /\ trace[Len(trace) - 1] = Call("history 5y")

\* C8: whatever was submitted before, what a submission binds and shows is a
\* function of its own inputs and of what the provider returned to it.  Every
\* bound name was bound by this run (its provider call is in this run's
\* trace, or this run's computation has run); the namespace of a run that
\* got through the computation, or stopped in it, is the one the computation
\* gives from this run's inputs and fetched tables alone; and the page of a
\* completed run is the one rendered from that namespace.
Called(what) == \E k \in 1..Len(trace) : trace[k] = Call(what)

BoundByThisRun(x) ==
  \/ x \in InputNames
  \/ x \in {"stock", "market_price"} /\ Called("history 1d")
  \/ x = "cashflow" /\ Called("cashflow")
  \/ x = "income_stmt" /\ Called("financials")
  \/ x = "balance_sheet" /\ Called("balance_sheet")
  \/ x \in ForecastNames \cup ComputeNames /\ Called("balance_sheet") /\ pc # "compute"
  \/ x = "hist" /\ Called("history 5y")

OwnInputs == [x \in Names |-> IF x \in InputNames \cup FetchNames THEN ns[x] ELSE <<>>]
Computed == Names \ {"hist"}

\* r is what lines 111 to 162 give from this run's inputs and tables alone.
FromOwnInputs(r) ==
  /\ \A x \in Computed : ns[x] = r.ns[x]
  /\ err = r.err
  /\ pc = "done" => Page = HeaderElements \o BodyElements(r.ns)

C8_NothingFromEarlierRuns ==
  /\ \A x \in Defined(ns) : BoundByThisRun(x)
  /\ ForecastNames \cap Defined(ns) # {} => HasFcf
  /\ (pc = "done" \/ err = "NameError") => FromOwnInputs(RunBlocks(OwnInputs, 1))

\* A second submission whose cash-flow statement has no 'Free Cash Flow' row
\* stops where it reads fcf_raw: the name is not there from the first.
C8_Witness ==
  /\ runs = 2
  /\ err = "NameError"
  /\ NoFcf
  /\ ~Bound(ns, "fcf_raw")

\* C9: with the 'Free Cash Flow' row present, whichever of the labels total
\* equity, total debt, cash, shares outstanding, interest expense and tax
\* rate are missing, a missing lookup gives its default (0.241 for the tax
\* rate, 0 for the others) and a present one the figure of the row's most
\* recent year; the computation raises nothing and binds every name, with
\* net debt = total debt - cash and total capital = total equity + total debt.
Newest(df) == CHOOSE j \in 1..Len(df.columns) : \A k \in 1..Len(df.columns) : df.columns[k] <= df.columns[j]

Looked(df, label, default) ==
  IF label \in DOMAIN df.rows THEN df.rows[label][Newest(df)] ELSE default

C9_MissingLabelsDefault ==
  HasFcf =>
    /\ err # "NameError"
    /\ (Called("balance_sheet") /\ pc # "compute" /\ pc # "failed") =>
         ForecastNames \cup ComputeNames \subseteq Defined(ns)
    /\ Bound(ns, "wacc") =>
         /\ V(ns, "total_equity") = Looked(V(ns, "balance_sheet"), EquityLabel, Zero)
         /\ V(ns, "total_debt") = Looked(V(ns, "balance_sheet"), DebtLabel, Zero)
         /\ V(ns, "cash") = Looked(V(ns, "balance_sheet"), CashLabel, Zero)
         /\ V(ns, "shares_outstanding") = Looked(V(ns, "balance_sheet"), SharesLabel, Zero)
         /\ V(ns, "interest_expense") = Looked(V(ns, "income_stmt"), InterestLabel, Zero)
         /\ V(ns, "tax_rate") = Looked(V(ns, "income_stmt"), TaxLabel, Rat(241, 1000))
         /\ REq(V(ns, "net_debt"), RSub(V(ns, "total_debt"), V(ns, "cash")))
         /\ REq(V(ns, "total_capital"), RAdd(V(ns, "total_equity"), V(ns, "total_debt")))

\* A completed request with the tax rate and the debt missing, the equity
\* and the cash present.
C9_Witness ==
  /\ pc = "done"
  /\ HasFcf
  /\ TaxLabel \notin DOMAIN V(ns, "income_stmt").rows
  /\ DebtLabel \notin DOMAIN V(ns, "balance_sheet").rows
  /\ EquityLabel \in DOMAIN V(ns, "balance_sheet").rows
  /\ CashLabel \in DOMAIN V(ns, "balance_sheet").rows
  /\ V(ns, "tax_rate") = Rat(241, 1000)
  /\ V(ns, "net_debt").sg < 0

\* C10: the discounted value of forecast year i is forecast_i / (1 + WACC)^i
\* for i in 1..5, the discounted terminal value is terminal value /
\* (1 + WACC)^5, enterprise value is the sum of the five discounted values
\* plus the discounted terminal value, and equity value is enterprise value
\* less (total debt - cash).  The quotients are stated as products; 121 at
\* year 2 with WACC 0.10 gives 100.
C10_DiscountingAndValue ==
  /\ JustComputed =>
       /\ Len(V(ns, "discounted_fcfs")) = 5
       /\ \A i \in 1..5 :
            REq(RMul(V(ns, "discounted_fcfs")[i], RPow(RAdd(One, V(ns, "wacc")), i)),
                V(ns, "fcf_forecast")[i])
       /\ REq(RMul(V(ns, "discounted_terminal"), RPow(RAdd(One, V(ns, "wacc")), 5)),
              V(ns, "terminal_value"))
       /\ REq(V(ns, "enterprise_value"),
              RAdd(RSum(V(ns, "discounted_fcfs")), V(ns, "discounted_terminal")))
       /\ REq(V(ns, "equity_value"),
              RSub(V(ns, "enterprise_value"), RSub(V(ns, "total_debt"), V(ns, "cash"))))
  /\ REq(DiscountedFcfs(<<Rat(110, 1), Rat(121, 1)>>, DiscountFactors(Rat(10, 100)))[2],
         Hundred)

\* A completed request with a forecast that is not zero, a WACC that is not
\* the fallback, and debt and cash that differ.
C10_Witness ==
  /\ JustComputed
  /\ V(ns, "fcf_forecast")[2].sg # 0
  /\ ~REq(V(ns, "wacc"), Rat(10, 100))
  /\ V(ns, "net_debt").sg > 0

Next ==
  \/ Submit
  \/ FetchPrice
  \/ FetchCashflow
  \/ FetchIncome
  \/ FetchBalance
  \/ Compute
  \/ RenderHeader
  \/ FetchHistory
  \/ RenderBody
  \/ ProviderFails

Spec == Init /\ [][Next]_vars

====
